---- MODULE Spec2Model ----
(***************************************************************************)
(* Bluecon: a Streamlit front-end over PostgreSQL functions, procedures    *)
(* and queries.  The model covers the metadata parsers                     *)
(* (utils/function_parser.py, utils/procedure_parser.py), the call         *)
(* builders (utils/function_ui_helpers.py, utils/procedure_ui_helpers.py), *)
(* the function / procedure tabs of app.py and the entry points of         *)
(* db/executor.py.                                                         *)
(*                                                                         *)
(* Text is a sequence of lexical tokens.  Every punctuation character the  *)
(* code inspects is a token of its own (" ", "\n", ":", ",", "'"); "--"    *)
(* is the SQL comment prefix; every other token is a word without any of   *)
(* these characters.  No two adjacent words of the alphabet join into a    *)
(* keyword, so matching a regular expression token by token is matching    *)
(* it on the characters.                                                   *)
(***************************************************************************)
EXTENDS Integers, Sequences, FiniteSets, TLC

VARIABLES
  pc,           \* position of the run: which operation has acted
  lines,        \* the lines of the SQL file that is read
  items,        \* the comma-separated items of the file's params: value
  sql_content,  \* parser input: the text of a SQL file
  kind,         \* which parser ran: "function" | "procedure" | "none"
  metadata,     \* parser result: None or the descriptor dict
  call_args,    \* builder input: [func_name, params_dict, return_type]
  formatted_params, \* the builder's list of formatted values
  sql_call,     \* builder result: the SQL text, a string
  page,         \* state of one script run of a tab of app.py
  db            \* state of one call of an entry point of db/executor.py

vars == <<pc, lines, items, sql_content, kind, metadata, call_args,
          formatted_params, sql_call, page, db>>

(***************************************************************************)
(* Python values                                                           *)
(***************************************************************************)
None == [t |-> "None"]

Str(s) == [t |-> "str", s |-> s]

Min(S) == CHOOSE x \in S : \A y \in S : x <= y

Max(S) == CHOOSE x \in S : \A y \in S : x >= y

(***************************************************************************)
(* str methods and regular-expression pieces used by the parsers           *)
(***************************************************************************)
\* \s of the regular expressions and the characters str.strip() removes
IsSpace(c) == c \in {" ", "\n", "\t"}

\* <<word, word.upper(), word.lower()>> for the words that have letters of
\* both cases to convert; every other token is its own upper and lower case
CaseTable ==
  { <<"none", "NONE", "none">>, <<"None", "NONE", "none">>,
    <<"NONE", "NONE", "none">>, <<"name", "NAME", "name">>,
    <<"params", "PARAMS", "params">>, <<"returns", "RETURNS", "returns">>,
    <<"description", "DESCRIPTION", "description">>,
    <<"f", "F", "f">>, <<"a", "A", "a">>, <<"b", "B", "b">>,
    <<"c", "C", "c">>, <<"d", "D", "d">>, <<"e", "E", "e">>,
    <<"l", "L", "l">>, <<"r", "R", "r">>, <<"s", "S", "s">>,
    <<"u", "U", "u">>, <<"x", "X", "x">>, <<"T", "T", "t">>,
    <<"F", "F", "f">>,
    <<"int", "INT", "int">>, <<"INT", "INT", "int">>,
    <<"text", "TEXT", "text">>, <<"date", "DATE", "date">>,
    <<"json", "JSON", "json">>, <<"JSON", "JSON", "json">>,
    <<"table", "TABLE", "table">>, <<"Table", "TABLE", "table">>,
    <<"TABLE", "TABLE", "table">>, <<"void", "VOID", "void">>,
    <<"DECIMAL", "DECIMAL", "decimal">>, <<"VOID", "VOID", "void">>,
    <<"FUNCTION_METADATA", "FUNCTION_METADATA", "function_metadata">>,
    <<"PROCEDURE_METADATA", "PROCEDURE_METADATA", "procedure_metadata">>,
    <<"END_METADATA", "END_METADATA", "end_metadata">> }

UpperTok(c) ==
  IF \E r \in CaseTable : r[1] = c
  THEN (CHOOSE r \in CaseTable : r[1] = c)[2]
  ELSE c

LowerTok(c) ==
  IF \E r \in CaseTable : r[1] = c
  THEN (CHOOSE r \in CaseTable : r[1] = c)[3]
  ELSE c

\* str.upper()
Upper(s) == [i \in 1..Len(s) |-> UpperTok(s[i])]

\* str.lower()
Lower(s) == [i \in 1..Len(s) |-> LowerTok(s[i])]

\* str.strip()
Strip(s) ==
  LET keep == {i \in 1..Len(s) : ~IsSpace(s[i])}
  IN IF keep = {} THEN <<>> ELSE SubSeq(s, Min(keep), Max(keep))

\* the literal pat occurs in s at position i
MatchAt(s, i, pat) ==
  /\ i >= 1
  /\ i + Len(pat) - 1 <= Len(s)
  /\ \A k \in 1..Len(pat) : s[i + k - 1] = pat[k]

\* where a greedy \s* that starts at i stops: the first non-space at or after i
RECURSIVE SkipSpace(_, _)
SkipSpace(s, i) ==
  IF i <= Len(s) /\ IsSpace(s[i]) THEN SkipSpace(s, i + 1) ELSE i

\* where a greedy .+ that starts at i stops ("." is any character but "\n")
RECURSIVE LineEnd(_, _)
LineEnd(s, i) ==
  IF i + 1 <= Len(s) /\ s[i + 1] # "\n" THEN LineEnd(s, i + 1) ELSE i

\* str.split(sep): the pieces between the occurrences of sep
RECURSIVE Split(_, _)
Split(s, sep) ==
  LET at == {i \in 1..Len(s) : s[i] = sep}
  IN IF at = {} THEN <<s>>
     ELSE <<SubSeq(s, 1, Min(at) - 1)>>
            \o Split(SubSeq(s, Min(at) + 1, Len(s)), sep)

\* str.split(sep, 1) of a string that contains sep
SplitFirst(s, sep) ==
  LET p == Min({i \in 1..Len(s) : s[i] = sep})
  IN <<SubSeq(s, 1, p - 1), SubSeq(s, p + 1, Len(s))>>

\* str.join for token sequences
RECURSIVE Join(_, _)
Join(parts, sep) ==
  IF parts = <<>> THEN <<>>
  ELSE IF Len(parts) = 1 THEN Head(parts)
  ELSE Head(parts) \o sep \o Join(Tail(parts), sep)

FUNCTION_START == <<"--", " ", "FUNCTION_METADATA">>

PROCEDURE_START == <<"--", " ", "PROCEDURE_METADATA">>

END_MARKER == <<"--", " ", "END_METADATA">>

\* `\s*-- END_METADATA` matches at e
EndMatchesAt(s, e) ==
  \E k \in e..SkipSpace(s, e) : MatchAt(s, k, END_MARKER)

\* where  <start>  matches in s
StartMatches(s, start) == {i \in 1..Len(s) : MatchAt(s, i, start)}

\* the ways  \s*(.*?)\s*-- END_METADATA  (re.DOTALL) matches from position p:
\* <<q, e>> with group 1 = s[q .. e-1]
GroupMatches(s, p) ==
  UNION { {<<q, e>> : e \in {x \in q..(Len(s) + 1) : EndMatchesAt(s, x)}} :
          q \in p..SkipSpace(s, p) }

\* re.search(metadata_pattern, s, re.DOTALL) finds a match
HasBlock(s, start) ==
  \E i \in StartMatches(s, start) : GroupMatches(s, i + Len(start)) # {}

\* match.group(1): the leftmost start, the greedy \s* as long as it can be,
\* the lazy (.*?) as short as it can be
MetadataBlock(s, start) ==
  LET i  == Min({x \in StartMatches(s, start) :
                   GroupMatches(s, x + Len(start)) # {}})
      gs == GroupMatches(s, i + Len(start))
      q  == Max({g[1] : g \in gs})
      e  == Min({g[2] : g \in {h \in gs : h[1] = q}})
  IN SubSeq(s, q, e - 1)

\* the ways  --\s*<field>:\s*(.+)  matches in block b with its "--" at i:
\* the positions c where group 1 can start
FieldMatches(b, field, i) ==
  IF b[i] # "--" THEN {}
  ELSE UNION { {c \in (j + 2)..SkipSpace(b, j + 2) :
                  c <= Len(b) /\ b[c] # "\n"} :
               j \in {x \in (i + 1)..SkipSpace(b, i + 1) :
                        MatchAt(b, x, <<field, ":">>)} }

\* FieldSearch with (.*) for (.+): a field line without a value matches, with
\* an empty group
FieldSearch_EmptyGroup(b, field) ==
  LET keys == {i \in 1..Len(b) :
                 /\ b[i] = "--"
                 /\ MatchAt(b, SkipSpace(b, i + 1), <<field, ":">>)}
  IN IF keys = {} THEN None
     ELSE LET c == SkipSpace(b, SkipSpace(b, Min(keys) + 1) + 2)
          IN IF c <= Len(b) THEN Str(SubSeq(b, c, LineEnd(b, c)))
             ELSE Str(<<>>)

\* re.search(r"--\s*<field>:\s*(.+)", b): None, or group(1) of the leftmost
\* match, the greedy \s* as long as it can be, the greedy .+ to the line's end
FieldSearch(b, field) ==
  LET at == {i \in 1..Len(b) : FieldMatches(b, field, i) # {}}
  IN IF at = {} THEN None
     ELSE LET c == Max(FieldMatches(b, field, Min(at)))
          IN Str(SubSeq(b, c, LineEnd(b, c)))

\* ParseParams without the .upper() of the type
RECURSIVE ParseParams_NoUpper(_)
ParseParams_NoUpper(param_list) ==
  IF param_list = <<>> THEN <<>>
  ELSE LET param == Strip(Head(param_list))
       IN (IF \E i \in 1..Len(param) : param[i] = ":"
           THEN <<[name |-> Strip(SplitFirst(param, ":")[1]),
                   type |-> Strip(SplitFirst(param, ":")[2])]>>
           ELSE <<>>)
          \o ParseParams_NoUpper(Tail(param_list))

\* lines 71-77: the for loop over param_list
RECURSIVE ParseParams(_)
ParseParams(param_list) ==
  IF param_list = <<>> THEN <<>>
  ELSE LET param == Strip(Head(param_list))
       IN (IF \E i \in 1..Len(param) : param[i] = ":"
           THEN <<[name |-> Strip(SplitFirst(param, ":")[1]),
                   type |-> Upper(Strip(SplitFirst(param, ":")[2]))]>>
           ELSE <<>>)
          \o ParseParams(Tail(param_list))

\* lines 37-79 of both parsers: the fields of the matched block
ParseBlock(metadata_block, default_returns) ==
  LET name_match    == FieldSearch(metadata_block, "name")
      desc_match    == FieldSearch(metadata_block, "description")
      returns_match == FieldSearch(metadata_block, "returns")
      params_match  == FieldSearch(metadata_block, "params")
      params_str    == Strip(params_match.s)
  IN [t |-> "dict",
      name |-> IF name_match # None THEN Str(Strip(name_match.s)) ELSE None,
      description |->
        IF desc_match # None THEN Str(Strip(desc_match.s)) ELSE None,
      returns |->
        IF returns_match # None THEN Upper(Strip(returns_match.s))
        ELSE default_returns,
      params |->
        IF params_match # None
           /\ params_str # <<>> /\ Lower(params_str) # <<"none">>
        THEN ParseParams(Split(params_str, ","))
        ELSE <<>>]

\* parse_function_metadata with a pattern that does not ask for the end
\* marker: the block runs to the end of the text
parse_function_metadata_NoEnd(text) ==
  IF StartMatches(text, FUNCTION_START) = {} THEN None
  ELSE ParseBlock(SubSeq(text, Min(StartMatches(text, FUNCTION_START))
                                 + Len(FUNCTION_START), Len(text)),
                  <<"DECIMAL">>)

parse_function_metadata(text) ==
  IF ~HasBlock(text, FUNCTION_START) THEN None
  ELSE ParseBlock(MetadataBlock(text, FUNCTION_START), <<"DECIMAL">>)

parse_procedure_metadata(text) ==
  IF ~HasBlock(text, PROCEDURE_START) THEN None
  ELSE ParseBlock(MetadataBlock(text, PROCEDURE_START), <<"VOID">>)

(***************************************************************************)
(* The call builders: utils/function_ui_helpers.py and                     *)
(* utils/procedure_ui_helpers.py.  A Python str is a token sequence; the   *)
(* SQL text handed to the executor is the string its tokens spell.         *)
(***************************************************************************)
PyBool(b) == [t |-> "bool", b |-> b]

PyInt(n) == [t |-> "int", n |-> n]

\* the float h / 100: a float with at most two decimals
PyFloat(h) == [t |-> "float", h |-> h]

\* datetime.date(y, m, d)
PyDate(y, m, d) == [t |-> "date", y |-> y, m |-> m, d |-> d]

\* an object of any other class, with the text str() gives for it
PyOther(s) == [t |-> "other", s |-> s]

\* isinstance(v, cls): bool is a subclass of int
IsInstance(v, cls) ==
  CASE cls = "str"   -> v.t = "str"
    [] cls = "bool"  -> v.t = "bool"
    [] cls = "int"   -> v.t \in {"int", "bool"}
    [] cls = "float" -> v.t = "float"
    [] cls = "date"  -> v.t = "date"

\* the string a token sequence spells
RECURSIVE Cat(_)
Cat(s) == IF s = <<>> THEN "" ELSE Head(s) \o Cat(Tail(s))

Digits == <<"0", "1", "2", "3", "4", "5", "6", "7", "8", "9">>

\* the decimal digits of a natural number
RECURSIVE NatStr(_)
NatStr(n) ==
  IF n < 10 THEN <<Digits[n + 1]>>
  ELSE NatStr(n \div 10) \o <<Digits[(n % 10) + 1]>>

\* the digits of n, zero-padded on the left to width w
RECURSIVE Pad(_, _)
Pad(n, w) == IF Len(NatStr(n)) >= w THEN NatStr(n)
             ELSE <<"0">> \o Pad(n, w - 1)

Abs(n) == IF n < 0 THEN -n ELSE n

\* str(v), and what an f-string puts for {v}
PyStr(v) ==
  CASE v.t = "None"  -> <<"None">>
    [] v.t = "str"   -> v.s
    [] v.t = "bool"  -> IF v.b THEN <<"T", "r", "u", "e">>
                        ELSE <<"F", "a", "l", "s", "e">>
    [] v.t = "int"   -> (IF v.n < 0 THEN <<"-">> ELSE <<>>) \o NatStr(Abs(v.n))
    [] v.t = "float" ->
         (IF v.h < 0 THEN <<"-">> ELSE <<>>)
           \o NatStr(Abs(v.h) \div 100) \o <<".">>
           \o (IF Abs(v.h) % 10 = 0 THEN <<Digits[((Abs(v.h) % 100) \div 10) + 1]>>
               ELSE Pad(Abs(v.h) % 100, 2))
    [] v.t = "date"  ->
         Pad(v.y, 4) \o <<"-">> \o Pad(v.m, 2) \o <<"-">> \o Pad(v.d, 2)
    [] v.t = "other" -> v.s

\* EscapeQuotes that escapes nothing
EscapeQuotes_Off(s) == s

\* str.replace("'", "''")
RECURSIVE EscapeQuotes(_)
EscapeQuotes(s) ==
  IF s = <<>> THEN <<>>
  ELSE (IF Head(s) = "'" THEN <<"'", "'">> ELSE <<Head(s)>>)
         \o EscapeQuotes(Tail(s))

\* FormatValue with the numeric rule ahead of the boolean rule
FormatValue_NumericFirst(param_value) ==
  IF param_value = None \/ param_value = Str(<<>>) THEN <<"NULL">>
  ELSE IF IsInstance(param_value, "str")
    THEN <<"'">> \o EscapeQuotes(param_value.s) \o <<"'">>
  ELSE IF IsInstance(param_value, "int") \/ IsInstance(param_value, "float")
    THEN PyStr(param_value)
  ELSE IF IsInstance(param_value, "bool")
    THEN Upper(PyStr(param_value))
  ELSE <<"'">> \o PyStr(param_value) \o <<"'">>

\* one pass of the loop body, lines 106-120 of utils/function_ui_helpers.py:
\* the text appended to formatted_params for param_value
FormatValue(param_value) ==
  IF param_value = None \/ param_value = Str(<<>>) THEN <<"NULL">>
  ELSE IF IsInstance(param_value, "str")
    THEN <<"'">> \o EscapeQuotes(param_value.s) \o <<"'">>
  ELSE IF IsInstance(param_value, "bool")
    THEN Upper(PyStr(param_value))
  ELSE IF IsInstance(param_value, "int") \/ IsInstance(param_value, "float")
    THEN PyStr(param_value)
  ELSE IF IsInstance(param_value, "date")
    THEN <<"'">> \o PyStr(param_value) \o <<"'">>
  ELSE <<"'">> \o PyStr(param_value) \o <<"'">>

\* FormatParams that visits the items last to first
FormatParams_Reversed(params_dict) ==
  [i \in 1..Len(params_dict) |->
     FormatValue(params_dict[Len(params_dict) + 1 - i].v)]

\* the list formatted_params after the loop over params_dict.items(); a dict
\* is the sequence of its items [k, v] in iteration order
FormatParams(params_dict) ==
  [i \in 1..Len(params_dict) |-> FormatValue(params_dict[i].v)]

\* build_function_call that compares the return type in any letter case
build_function_call_AnyCase(func_name, params_dict, return_type) ==
  LET params_str == Join(FormatParams(params_dict), <<", ">>)
  IN IF Upper(return_type) = <<"TABLE">>
     THEN <<"SELECT * FROM ">> \o PyStr(func_name) \o <<"(">>
            \o params_str \o <<");">>
     ELSE <<"SELECT ">> \o PyStr(func_name) \o <<"(">>
            \o params_str \o <<") AS result;">>

build_function_call(func_name, params_dict, return_type) ==
  IF params_dict = <<>>
  THEN IF return_type = <<"TABLE">>
       THEN <<"SELECT * FROM ">> \o PyStr(func_name) \o <<"();">>
       ELSE <<"SELECT ">> \o PyStr(func_name) \o <<"() AS result;">>
  ELSE LET params_str == Join(FormatParams(params_dict), <<", ">>)
       IN IF return_type = <<"TABLE">>
          THEN <<"SELECT * FROM ">> \o PyStr(func_name) \o <<"(">>
                 \o params_str \o <<");">>
          ELSE <<"SELECT ">> \o PyStr(func_name) \o <<"(">>
                 \o params_str \o <<") AS result;">>

\* ProcedureFormatValue that quotes the empty string instead of giving NULL
ProcedureFormatValue_EmptyQuoted(param_value) ==
  IF param_value = None THEN <<"NULL">>
  ELSE IF IsInstance(param_value, "str")
    THEN <<"'">> \o EscapeQuotes(param_value.s) \o <<"'">>
  ELSE IF IsInstance(param_value, "bool")
    THEN Upper(PyStr(param_value))
  ELSE IF IsInstance(param_value, "int") \/ IsInstance(param_value, "float")
    THEN PyStr(param_value)
  ELSE <<"'">> \o PyStr(param_value) \o <<"'">>

\* one pass of the procedure builder's own loop body, lines 28-42 of
\* utils/procedure_ui_helpers.py
ProcedureFormatValue(param_value) ==
  IF param_value = None \/ param_value = Str(<<>>) THEN <<"NULL">>
  ELSE IF IsInstance(param_value, "str")
    THEN <<"'">> \o EscapeQuotes(param_value.s) \o <<"'">>
  ELSE IF IsInstance(param_value, "bool")
    THEN Upper(PyStr(param_value))
  ELSE IF IsInstance(param_value, "int") \/ IsInstance(param_value, "float")
    THEN PyStr(param_value)
  ELSE IF IsInstance(param_value, "date")
    THEN <<"'">> \o PyStr(param_value) \o <<"'">>
  ELSE <<"'">> \o PyStr(param_value) \o <<"'">>

\* the procedure builder's list formatted_params after its loop
ProcedureFormatParams(params_dict) ==
  [i \in 1..Len(params_dict) |-> ProcedureFormatValue(params_dict[i].v)]

build_procedure_call(proc_name, params_dict) ==
  IF params_dict = <<>>
  THEN <<"CALL ">> \o PyStr(proc_name) \o <<"();">>
  ELSE LET params_str == Join(ProcedureFormatParams(params_dict), <<", ">>)
       IN <<"CALL ">> \o PyStr(proc_name) \o <<"(">> \o params_str \o <<");">>

MaxParams == 2

ParamNames == {<<"id">>, <<"label">>, <<"qty">>}

\* the values a caller passes for a parameter
ParamValues ==
  { None, Str(<<>>), Str(<<"x">>), Str(<<"O", "'", "Brien">>),
    PyBool(TRUE), PyBool(FALSE), PyInt(42), PyInt(7), PyInt(0), PyInt(-3), PyFloat(350),
    Str(<<"'">>), PyDate(2024, 1, 15),
    PyOther(<<"09", ":", "30", ":", "00">>) }

\* the dicts of at most MaxParams items: distinct keys, in insertion order
ParamDicts ==
  UNION { { d \in [1..n -> [k : ParamNames, v : ParamValues]] :
              \A i \in 1..n : \A j \in 1..n : i # j => d[i].k # d[j].k } :
          n \in 0..MaxParams }

InitBuild ==
  /\ pc = "args"
  /\ call_args \in [func_name : {Str(<<"f">>), Str(<<"p">>)},
                    params_dict : ParamDicts,
                    return_type : {<<"TABLE">>, <<"DECIMAL">>, <<"table">>}]
  /\ lines = <<>>
  /\ items = <<>>
  /\ sql_content = <<>>
  /\ kind = "none"
  /\ metadata = None
  /\ formatted_params = <<>>
  /\ sql_call = ""
  /\ page = None
  /\ db = None

BuildFunctionCall ==
  /\ pc = "args"
  /\ pc' = "built"
  /\ kind' = "function"
  /\ formatted_params' = FormatParams(call_args.params_dict)
  /\ sql_call' = Cat(build_function_call(call_args.func_name,
                                         call_args.params_dict,
                                         call_args.return_type))
  /\ UNCHANGED <<lines, items, sql_content, metadata, call_args, page>>
  /\ UNCHANGED db

BuildProcedureCall ==
  /\ pc = "args"
  /\ pc' = "built"
  /\ kind' = "procedure"
  /\ formatted_params' = ProcedureFormatParams(call_args.params_dict)
  /\ sql_call' = Cat(build_procedure_call(call_args.func_name,
                                          call_args.params_dict))
  /\ UNCHANGED <<lines, items, sql_content, metadata, call_args, page>>
  /\ UNCHANGED db

NextBuild == BuildFunctionCall \/ BuildProcedureCall

SpecBuild == InitBuild /\ [][NextBuild]_vars

(***************************************************************************)
(* The files the parsers read                                              *)
(***************************************************************************)
MaxLines == 4

FieldLine(field, value) ==
  <<"--", " ", field, ":">> \o value

ParamsNoneLines ==
  { FieldLine("params", <<" ", "None">>), FieldLine("params", <<>>) }

\* the lines a file of database/functions or database/procedures is made of
FileLines ==
  { FUNCTION_START, PROCEDURE_START, END_MARKER,
    FieldLine("name", <<" ", "f">>), FieldLine("name", <<>>),
    FieldLine("returns", <<" ", "table">>), FieldLine("returns", <<>>),
    FieldLine("description", <<" ", "d">>) }
  \cup ParamsNoneLines

Idle ==
  /\ kind = "none"
  /\ metadata = None
  /\ call_args = None
  /\ formatted_params = <<>>
  /\ sql_call = ""
  /\ page = None
  /\ db = None

\* utils/sql_loader.py: sql_map[file.stem] = file.read_text()
InitParse ==
  /\ pc = "loaded"
  /\ lines \in UNION { [1..n -> FileLines] : n \in 0..MaxLines }
  /\ items = <<>>
  /\ sql_content = Join(lines, <<"\n">>)
  /\ Idle

ParseFunction ==
  /\ pc = "loaded"
  /\ pc' = "parsed"
  /\ kind' = "function"
  /\ metadata' = parse_function_metadata(sql_content)
  /\ UNCHANGED <<lines, items, sql_content, call_args, formatted_params,
                 sql_call, page>>
  /\ UNCHANGED db

ParseProcedure ==
  /\ pc = "loaded"
  /\ pc' = "parsed"
  /\ kind' = "procedure"
  /\ metadata' = parse_procedure_metadata(sql_content)
  /\ UNCHANGED <<lines, items, sql_content, call_args, formatted_params,
                 sql_call, page>>
  /\ UNCHANGED db

NextParse == ParseFunction \/ ParseProcedure

SpecParse == InitParse /\ [][NextParse]_vars

MaxItems == 3

\* the items a params: value is made of
ParamItems ==
  { <<"a", ":", "INT">>, <<"b", ":", "TEXT">>, <<"c", ":", "DATE">>,
    <<" ", "b", " ", ":", " ", "text", " ">>, <<"d">>,
    <<"c", ":", "int", ":", "a">>, <<>> }

\* a file whose block is a params: line made of items, alone or followed by
\* one more line
InitParams ==
  /\ pc = "loaded"
  /\ items \in UNION { [1..n -> ParamItems] : n \in 0..MaxItems }
  /\ \E start \in {FUNCTION_START, PROCEDURE_START} :
       \E rest \in { <<>>, <<FieldLine("returns", <<" ", "table">>)>> } :
         lines = <<start,
                   FieldLine("params", <<" ">> \o Join(items, <<",">>))>>
                 \o rest \o <<END_MARKER>>
  /\ sql_content = Join(lines, <<"\n">>)
  /\ Idle

SpecParams == InitParams /\ [][NextParse]_vars

(***************************************************************************)
(* app.py: one run of the script renders the Functions tab, then the       *)
(* Procedures tab; every interaction of the user runs the script again.    *)
(***************************************************************************)
File(ls) == Join(ls, <<"\n">>)

\* load_sql_files("functions"): file stem -> content
functions ==
  [stem \in {"notes", "f_table", "f_params", "f_noname"} |->
     CASE stem = "notes" ->
            File(<< FieldLine("name", <<" ", "f">>) >>)
       [] stem = "f_table" ->
            File(<< FUNCTION_START, FieldLine("name", <<" ", "f">>),
                    FieldLine("params", <<" ", "none">>),
                    FieldLine("returns", <<" ", "table">>), END_MARKER >>)
       [] stem = "f_params" ->
            File(<< FUNCTION_START, FieldLine("name", <<" ", "f">>),
                    FieldLine("params", <<" ", "a", ":", "int">>),
                    END_MARKER >>)
       [] stem = "f_noname" ->
            File(<< FUNCTION_START, FieldLine("returns", <<" ", "table">>),
                    END_MARKER >>)]

\* load_sql_files("procedures"): file stem -> content
procedures ==
  [stem \in {"notes", "p_none", "p_json", "p_int", "p_dup", "p_noname"} |->
     CASE stem = "notes" ->
            File(<< FieldLine("name", <<" ", "f">>) >>)
       [] stem = "p_none" ->
            File(<< PROCEDURE_START, FieldLine("name", <<" ", "f">>),
                    FieldLine("params", <<" ", "None">>), END_MARKER >>)
       [] stem = "p_json" ->
            File(<< PROCEDURE_START, FieldLine("name", <<" ", "f">>),
                    FieldLine("params",
                              <<" ", "b", ":", "json", ",", "a", ":", "JSON">>),
                    END_MARKER >>)
       [] stem = "p_int" ->
            File(<< PROCEDURE_START, FieldLine("name", <<" ", "f">>),
                    FieldLine("params",
                              <<" ", "a", ":", "JSON", ",", "b", ":", "int">>),
                    END_MARKER >>)
       [] stem = "p_dup" ->
            File(<< PROCEDURE_START, FieldLine("name", <<" ", "f">>),
                    FieldLine("params",
                              <<" ", "a", ":", "json", ",", "a", ":", "json">>),
                    END_MARKER >>)
       [] stem = "p_noname" ->
            File(<< PROCEDURE_START,
                    FieldLine("params", <<" ", "a", ":", "json">>),
                    END_MARKER >>)]

\* the parameters render_input_widget declares
RenderInputWidgetParams == {"param_name", "param_type"}

\* a call of render_input_widget with these keyword and positional
\* parameters raises TypeError: one of them is not declared
RenderInputWidgetRaises(passed) == ~(passed \subseteq RenderInputWidgetParams)

\* params_dict[key] = value on a dict given as the sequence of its items
DictSet(d, key, value) ==
  IF \E i \in 1..Len(d) : d[i].k = key
  THEN [i \in 1..Len(d) |->
          IF d[i].k = key THEN [k |-> key, v |-> value] ELSE d[i]]
  ELSE Append(d, [k |-> key, v |-> value])

\* the text the user left in the st.text_area of a JSON parameter
JsonDefault ==
  Str(<<"[{\"batch_id\"", ":", " ", "1", ",", " ", "\"qty\"", ":", " ",
        "100", "}]">>)

TextAreaValues == {JsonDefault, Str(<<>>), Str(<<"O", "'", "Brien">>)}

TextAreaKeys == {<<"a">>, <<"b">>}

\* what run_function and run_procedure do with a statement: return, raise
\* ValueError, raise Exception
RunOutcomes == {"returned", "ValueError", "Exception"}

\* the state of the widgets when a run of the script starts
PageInputs ==
  [selected_func : DOMAIN functions,
   selected_proc : DOMAIN procedures,
   button : {"none", "execute_function", "execute_procedure"},
   text_area : [TextAreaKeys -> TextAreaValues]]

\* what a run has shown so far, the params_dict each tab has collected (None
\* until its loop is over), and the statements the run has handed to
\* run_function and run_procedure, each with the name of its descriptor
FreshRun(inputs) ==
  [inputs |-> inputs, shown_func |-> "nothing", shown_proc |-> "nothing",
   func_params |-> None, proc_params |-> None, executed |-> <<>>]

InitPage ==
  /\ pc = "tab2"
  /\ \E inputs \in PageInputs :
       /\ inputs.button = "none"
       /\ page = FreshRun(inputs)
  /\ lines = <<>>
  /\ items = <<>>
  /\ sql_content = <<>>
  /\ kind = "none"
  /\ metadata = None
  /\ call_args = None
  /\ formatted_params = <<>>
  /\ sql_call = ""
  /\ db = None

\* lines 84-167: the Functions tab
FunctionsTab ==
  /\ pc = "tab2"
  /\ kind' = "function"
  /\ sql_content' = functions[page.inputs.selected_func]
  /\ metadata' = parse_function_metadata(sql_content')
  /\ UNCHANGED <<lines, items>>
  /\ IF metadata' = None
     THEN /\ page' = [page EXCEPT !.shown_func = "no_metadata"]
          /\ pc' = "tab3"
          /\ UNCHANGED <<call_args, formatted_params, sql_call>>
     ELSE IF metadata'.params # <<>>
               /\ RenderInputWidgetRaises({"param_name", "param_type",
                                           "key_prefix"})
     THEN /\ page' = [page EXCEPT !.shown_func = "TypeError"]
          /\ pc' = "crashed"
          /\ UNCHANGED <<call_args, formatted_params, sql_call>>
     ELSE IF page.inputs.button # "execute_function"
     THEN /\ page' = [page EXCEPT !.shown_func = "form",
                                  !.func_params = <<>>]
          /\ pc' = "tab3"
          /\ UNCHANGED <<call_args, formatted_params, sql_call>>
     ELSE /\ call_args' = [func_name |-> metadata'.name,
                           params_dict |-> <<>>,
                           return_type |-> metadata'.returns]
          /\ formatted_params' = FormatParams(call_args'.params_dict)
          /\ sql_call' = Cat(build_function_call(call_args'.func_name,
                                                 call_args'.params_dict,
                                                 call_args'.return_type))
          /\ \E outcome \in RunOutcomes :
               page' = [page EXCEPT !.shown_func = outcome,
                                    !.func_params = <<>>,
                                    !.executed =
                                      Append(@, [sql |-> sql_call',
                                                 name |-> metadata'.name])]
          /\ pc' = "tab3"
  /\ UNCHANGED db

\* lines 208-224: the loop over metadata["params"] of the Procedures tab;
\* [raised, params_dict] when it ends.  keys holds the keys of the widgets
\* the run has made: Streamlit raises DuplicateWidgetID for a second widget
\* with a key already used
RECURSIVE CollectProcedureParams(_, _, _, _)
CollectProcedureParams(params, text_area, params_dict, keys) ==
  IF params = <<>> THEN [raised |-> "none", params_dict |-> params_dict]
  ELSE LET param_name == Head(params).name
           param_type == Head(params).type
       IN IF param_type = <<"JSON">>
          THEN IF param_name \in keys
               THEN [raised |-> "DuplicateWidgetID",
                     params_dict |-> params_dict]
               ELSE CollectProcedureParams(
                      Tail(params), text_area,
                      DictSet(params_dict, param_name,
                              IF param_name \in DOMAIN text_area
                              THEN text_area[param_name] ELSE JsonDefault),
                      keys \cup {param_name})
          ELSE IF RenderInputWidgetRaises({"param_name", "param_type",
                                           "key_prefix"})
          THEN [raised |-> "TypeError", params_dict |-> params_dict]
          ELSE CollectProcedureParams(Tail(params), text_area, params_dict,
                                      keys)

\* lines 171-268: the Procedures tab
ProceduresTab ==
  /\ pc = "tab3"
  /\ kind' = "procedure"
  /\ sql_content' = procedures[page.inputs.selected_proc]
  /\ metadata' = parse_procedure_metadata(sql_content')
  /\ UNCHANGED <<lines, items>>
  /\ IF metadata' = None
     THEN /\ page' = [page EXCEPT !.shown_proc = "no_metadata"]
          /\ pc' = "done"
          /\ call_args' = None
          /\ formatted_params' = <<>>
          /\ sql_call' = ""
     ELSE LET collected == CollectProcedureParams(metadata'.params,
                                                  page.inputs.text_area, <<>>,
                                                  {})
          IN IF collected.raised # "none"
             THEN /\ page' = [page EXCEPT !.shown_proc = collected.raised]
                  /\ pc' = "crashed"
                  /\ call_args' = None
                  /\ formatted_params' = <<>>
                  /\ sql_call' = ""
             ELSE IF page.inputs.button # "execute_procedure"
             THEN /\ page' = [page EXCEPT
                                !.shown_proc = "form",
                                !.proc_params = collected.params_dict]
                  /\ pc' = "done"
                  /\ call_args' = None
                  /\ formatted_params' = <<>>
                  /\ sql_call' = ""
             ELSE /\ call_args' = [func_name |-> metadata'.name,
                                   params_dict |-> collected.params_dict,
                                   return_type |-> metadata'.returns]
                  /\ formatted_params' =
                       ProcedureFormatParams(call_args'.params_dict)
                  /\ sql_call' = Cat(build_procedure_call(
                                       call_args'.func_name,
                                       call_args'.params_dict))
                  /\ \E outcome \in RunOutcomes :
                       page' = [page EXCEPT
                                  !.shown_proc = outcome,
                                  !.proc_params = collected.params_dict,
                                  !.executed =
                                              Append(@, [sql |-> sql_call',
                                                         name |-> metadata'.name])]
                  /\ pc' = "done"
  /\ UNCHANGED db

\* the buttons the finished run has put on the page: a tab makes its button
\* after the loop over the parameters, lines 135 and 231
ButtonsShown ==
  (IF page.shown_func \in {"form"} \cup RunOutcomes
   THEN {"execute_function"} ELSE {})
  \cup
  (IF page.shown_proc \in {"form"} \cup RunOutcomes
   THEN {"execute_procedure"} ELSE {})

\* the user changes a widget, or presses a button that is on the page: the
\* script runs again
Rerun ==
  /\ pc \in {"done", "crashed"}
  /\ pc' = "tab2"
  /\ \E inputs \in PageInputs :
       /\ \/ inputs.button = "none"
          \/ /\ inputs.button \in ButtonsShown
             /\ inputs = [page.inputs EXCEPT !.button = inputs.button]
       /\ page' = FreshRun(inputs)
  /\ kind' = "none"
  /\ sql_content' = <<>>
  /\ metadata' = None
  /\ call_args' = None
  /\ formatted_params' = <<>>
  /\ sql_call' = ""
  /\ UNCHANGED <<lines, items>>
  /\ UNCHANGED db

NextPage == FunctionsTab \/ ProceduresTab \/ Rerun

SpecPage == InitPage /\ [][NextPage]_vars

(***************************************************************************)
(* db/executor.py: run_query, run_function, run_procedure                  *)
(*                                                                         *)
(* One call runs step by step; db holds its locals (conn, cur), the        *)
(* exception in flight, what it hands back, and what the database server   *)
(* and the connections have seen.  A message is a sequence of text pieces. *)
(***************************************************************************)
\* the SQLSTATE classes of psycopg2.errors the handlers name, one more
\* statement failure (UniqueViolation) and the loss of the connection
StatementErrors ==
  {"UndefinedFunction", "UndefinedTable", "UndefinedColumn", "SyntaxError",
   "RaiseException", "InvalidParameterValue", "ForeignKeyViolation",
   "CheckViolation", "NumericValueOutOfRange", "UniqueViolation",
   "OperationalError"}

\* the classes derived from psycopg2.Error
Psycopg2Errors == StatementErrors \cup {"InterfaceError"}

\* issubclass(cls, base) for the classes an except clause names
IsSubclass(cls, base) ==
  \/ cls = base
  \/ base = "Exception"
  \/ base = "psycopg2.Error" /\ cls \in Psycopg2Errors

\* the messages RAISE EXCEPTION of a routine carries
RoutineMessages == {<<"Batch does not exist">>, <<"qty must be positive">>}

\* str(e) of the driver's exception for a failed statement: the server's
\* message, followed for RAISE EXCEPTION by the CONTEXT line
ErrorText(cls, message) ==
  IF cls = "RaiseException"
  THEN message \o <<"\n", "CONTEXT:  PL/pgSQL function p() line 3 at RAISE",
                    "\n">>
  ELSE <<cls, "\n">>

\* the statements handed to an entry point: what the server does with each
\* (fails is "ok" or the class of the error), and the notices it emits
MaxNotices == 1

NoticeTexts == {"NOTICE:  batch created\n"}

Statements ==
  { [sql |-> "stmt", fails |-> c, message |-> m, notices |-> n] :
      c \in (StatementErrors \ {"RaiseException"}) \cup {"ok"},
      m \in {<<>>},
      n \in UNION { [1..k -> NoticeTexts] : k \in 0..MaxNotices } }
  \cup
  { [sql |-> "stmt", fails |-> "RaiseException", message |-> m,
     notices |-> <<>>] : m \in RoutineMessages }

\* pandas.errors.DatabaseError, a subclass of OSError: what pd.read_sql
\* raises in place of the driver's exception exc when a statement fails on a
\* DBAPI connection
PandasDatabaseError(sql_text, exc) ==
  [cls |-> "pandas.errors.DatabaseError",
   msg |-> <<"Execution failed on sql '", sql_text, "': ">> \o exc.msg]

\* what a failed pd.read_sql(sql, conn) raises
ReadSqlRaises(sql_text, exc) == PandasDatabaseError(sql_text, exc)

\* the except clauses of run_query, lines 25-39, in order
RunQueryHandlers ==
  << [catch |-> "UndefinedFunction", raises |-> "ValueError",
      prefix |-> "Database function not found: ",
      suffix |-> <<"\n", "Tip: Ensure all functions in database/functions/ are created in your database.">>],
     [catch |-> "UndefinedTable", raises |-> "ValueError",
      prefix |-> "Table not found: ", suffix |-> <<>>],
     [catch |-> "UndefinedColumn", raises |-> "ValueError",
      prefix |-> "Column not found: ", suffix |-> <<>>],
     [catch |-> "SyntaxError", raises |-> "ValueError",
      prefix |-> "SQL syntax error: ", suffix |-> <<>>],
     [catch |-> "psycopg2.Error", raises |-> "Exception",
      prefix |-> "Database error: ", suffix |-> <<>>],
     [catch |-> "Exception", raises |-> "Exception",
      prefix |-> "Unexpected error: ", suffix |-> <<>>] >>

\* the except clauses of run_procedure with the generic clause first
RunProcedureHandlers_GenericFirst ==
  << [catch |-> "psycopg2.Error", raises |-> "Exception",
      prefix |-> "Database error: ", suffix |-> <<>>],
     [catch |-> "RaiseException", raises |-> "ValueError",
      prefix |-> "Procedure validation error: ", suffix |-> <<>>],
     [catch |-> "Exception", raises |-> "Exception",
      prefix |-> "Unexpected error: ", suffix |-> <<>>] >>

\* the except clauses of run_procedure, lines 77-89, in order
RunProcedureHandlers ==
  << [catch |-> "RaiseException", raises |-> "ValueError",
      prefix |-> "Procedure validation error: ", suffix |-> <<>>],
     [catch |-> "InvalidParameterValue", raises |-> "ValueError",
      prefix |-> "Invalid parameter value: ", suffix |-> <<>>],
     [catch |-> "ForeignKeyViolation", raises |-> "ValueError",
      prefix |-> "Foreign key constraint error: ", suffix |-> <<>>],
     [catch |-> "CheckViolation", raises |-> "ValueError",
      prefix |-> "Check constraint error: ", suffix |-> <<>>],
     [catch |-> "psycopg2.Error", raises |-> "Exception",
      prefix |-> "Database error: ", suffix |-> <<>>],
     [catch |-> "Exception", raises |-> "Exception",
      prefix |-> "Unexpected error: ", suffix |-> <<>>] >>

\* the except clauses of run_function, lines 116-128, in order
RunFunctionHandlers ==
  << [catch |-> "UndefinedFunction", raises |-> "ValueError",
      prefix |-> "Function not found in database: ", suffix |-> <<>>],
     [catch |-> "RaiseException", raises |-> "ValueError",
      prefix |-> "Function error: ", suffix |-> <<>>],
     [catch |-> "InvalidParameterValue", raises |-> "ValueError",
      prefix |-> "Invalid parameter value: ", suffix |-> <<>>],
     [catch |-> "NumericValueOutOfRange", raises |-> "ValueError",
      prefix |-> "Numeric value out of range: ", suffix |-> <<>>],
     [catch |-> "psycopg2.Error", raises |-> "Exception",
      prefix |-> "Database error: ", suffix |-> <<>>],
     [catch |-> "Exception", raises |-> "Exception",
      prefix |-> "Unexpected error: ", suffix |-> <<>>] >>

HandlersOf(entry) ==
  CASE entry = "run_query"     -> RunQueryHandlers
    [] entry = "run_function"  -> RunFunctionHandlers
    [] entry = "run_procedure" -> RunProcedureHandlers

\* the exception the first except clause that matches exc raises
Reraise(handlers, exc) ==
  LET i == Min({ j \in 1..Len(handlers) : IsSubclass(exc.cls, handlers[j].catch) })
  IN [cls |-> handlers[i].raises,
      msg |-> <<handlers[i].prefix>> \o exc.msg \o handlers[i].suffix]

MaxCalls == 2

EntryPoints == {"run_query", "run_function", "run_procedure"}

\* get_connection() of db/connection.py: a fresh connection, or a failure of
\* the driver (OperationalError) or outside it (KeyError)
GetConnectionOutcomes == {"ok", "OperationalError", "KeyError"}

\* the connection object get_connection returns, the n-th one opened
Connection(n) == [t |-> "connection", id |-> n]

\* the object conn.cursor() returns
CursorObject(closed) == [t |-> "cursor", closed |-> closed]

InitExec ==
  /\ pc = "idle"
  /\ db = [calls |-> 0, open |-> {}, opened |-> 0, entry |-> "none",
           stmt |-> None, conn |-> None, cur |-> None, exc |-> None,
           result |-> None, raised |-> None, notices |-> <<>>,
           executes |-> 0, commits |-> 0, trace |-> <<>>]
  /\ lines = <<>>
  /\ items = <<>>
  /\ sql_content = <<>>
  /\ kind = "none"
  /\ metadata = None
  /\ call_args = None
  /\ formatted_params = <<>>
  /\ sql_call = ""
  /\ page = None

ExecUnchanged ==
  UNCHANGED <<lines, items, sql_content, kind, metadata, call_args,
              formatted_params, sql_call, page>>

\* a caller calls an entry point with a statement: lines 20, 62-63, 111
Call ==
  /\ pc \in {"idle", "done"}
  /\ db.calls < MaxCalls
  /\ \E entry \in EntryPoints, stmt \in Statements :
       db' = [db EXCEPT !.calls = @ + 1, !.entry = entry, !.stmt = stmt,
                        !.conn = None, !.cur = None, !.exc = None,
                        !.result = None, !.raised = None, !.notices = <<>>,
                        !.executes = 0, !.commits = 0, !.trace = <<>>]
  /\ pc' = "get_connection"
  /\ ExecUnchanged

\* conn = get_connection(): lines 22, 65, 113
GetConnection ==
  /\ pc = "get_connection"
  /\ \E outcome \in GetConnectionOutcomes :
       IF outcome = "ok"
       THEN /\ db' = [db EXCEPT !.conn = Connection(db.opened + 1),
                                !.opened = @ + 1,
                                !.open = @ \cup {Connection(db.opened + 1)},
                                !.trace = Append(@, "acquire")]
            /\ pc' = IF db.entry = "run_procedure" THEN "cursor"
                     ELSE "read_sql"
       ELSE /\ db' = [db EXCEPT !.exc = [cls |-> outcome,
                                         msg |-> <<outcome, "\n">>]]
            /\ pc' = "except"
  /\ ExecUnchanged

\* df = pd.read_sql(sql, conn); return df: lines 23-24, 114-115
ReadSql ==
  /\ pc = "read_sql"
  /\ IF db.stmt.fails = "ok"
     THEN /\ db' = [db EXCEPT !.executes = @ + 1,
                              !.result = [t |-> "DataFrame"],
                              !.trace = Append(@, "execute")]
          /\ pc' = "finally"
     ELSE /\ db' = [db EXCEPT
                      !.executes = @ + 1,
                      !.exc = ReadSqlRaises(
                                db.stmt.sql,
                                [cls |-> db.stmt.fails,
                                 msg |-> ErrorText(db.stmt.fails,
                                                   db.stmt.message)]),
                      !.trace = Append(@, "execute")]
          /\ pc' = "except"
  /\ ExecUnchanged

\* cur = conn.cursor(): line 66
Cursor ==
  /\ pc = "cursor"
  /\ \E outcome \in {"ok", "InterfaceError"} :
       IF outcome = "ok"
       THEN /\ db' = [db EXCEPT !.cur = CursorObject(FALSE), !.trace = Append(@, "cursor")]
            /\ pc' = "execute"
       ELSE /\ db' = [db EXCEPT !.exc = [cls |-> outcome,
                                         msg |-> <<outcome, "\n">>]]
            /\ pc' = "except"
  /\ ExecUnchanged

\* Execute that goes on to the notices without a commit
Execute_SkipsCommit ==
  /\ pc = "execute"
  /\ IF db.stmt.fails = "ok"
     THEN /\ db' = [db EXCEPT !.executes = @ + 1,
                              !.notices = db.stmt.notices,
                              !.trace = Append(@, "execute")]
          /\ pc' = "notices"
     ELSE /\ db' = [db EXCEPT
                      !.executes = @ + 1,
                      !.exc = [cls |-> db.stmt.fails,
                               msg |-> ErrorText(db.stmt.fails,
                                                 db.stmt.message)],
                      !.trace = Append(@, "execute")]
          /\ pc' = "except"
  /\ ExecUnchanged

\* cur.execute(call_statement): line 67
Execute ==
  /\ pc = "execute"
  /\ IF db.stmt.fails = "ok"
     THEN /\ db' = [db EXCEPT !.executes = @ + 1,
                              !.notices = db.stmt.notices,
                              !.trace = Append(@, "execute")]
          /\ pc' = "commit"
     ELSE /\ db' = [db EXCEPT
                      !.executes = @ + 1,
                      !.exc = [cls |-> db.stmt.fails,
                               msg |-> ErrorText(db.stmt.fails,
                                                 db.stmt.message)],
                      !.trace = Append(@, "execute")]
          /\ pc' = "except"
  /\ ExecUnchanged

\* conn.commit(): line 68; a deferred constraint or a lost connection makes
\* it fail, and then nothing is committed
Commit ==
  /\ pc = "commit"
  /\ \E outcome \in {"ok", "ForeignKeyViolation", "OperationalError"} :
       IF outcome = "ok"
       THEN /\ db' = [db EXCEPT !.commits = @ + 1,
                                !.trace = Append(@, "commit")]
            /\ pc' = "notices"
       ELSE /\ db' = [db EXCEPT !.exc = [cls |-> outcome,
                                         msg |-> <<outcome, "\n">>]]
            /\ pc' = "except"
  /\ ExecUnchanged

\* notices = list(conn.notices) ...; return {...}: lines 71-75
CollectNotices ==
  /\ pc = "notices"
  /\ db' = [db EXCEPT !.result = [success |-> TRUE, notices |-> db.notices],
                      !.trace = Append(@, "notices")]
  /\ pc' = "finally"
  /\ ExecUnchanged

\* the except clauses: the first that matches raises in place of exc
Except ==
  /\ pc = "except"
  /\ db' = [db EXCEPT !.raised = Reraise(HandlersOf(db.entry), db.exc)]
  /\ pc' = "finally"
  /\ ExecUnchanged

\* Finally that closes only after a failure
Finally_OnlyAfterFailure ==
  /\ pc = "finally"
  /\ db' = [db EXCEPT
              !.cur = IF db.cur # None /\ db.raised # None
                      THEN CursorObject(TRUE) ELSE @,
              !.open = IF db.conn # None /\ db.raised # None
                       THEN @ \ {db.conn} ELSE @,
              !.trace = Append(@, IF db.raised # None THEN "raise"
                                  ELSE "return")]
  /\ pc' = "done"
  /\ ExecUnchanged

\* the finally clause, lines 40-42, 90-94, 129-131, and the exit of the call
Finally ==
  /\ pc = "finally"
  /\ db' = [db EXCEPT
              !.cur = IF db.cur # None THEN CursorObject(TRUE) ELSE @,
              !.open = IF db.conn # None THEN @ \ {db.conn} ELSE @,
              !.trace = @ \o (IF db.cur # None THEN <<"close_cursor">>
                              ELSE <<>>)
                          \o (IF db.conn # None THEN <<"close_connection">>
                              ELSE <<>>)
                          \o (IF db.raised # None THEN <<"raise">>
                              ELSE <<"return">>)]
  /\ pc' = "done"
  /\ ExecUnchanged

NextExec ==
  \/ Call \/ GetConnection \/ ReadSql \/ Cursor \/ Execute \/ Commit
  \/ CollectNotices \/ Except \/ Finally

SpecExec == InitExec /\ [][NextExec]_vars

(***************************************************************************)
(* What the claims say about a file, stated on the text and on its lines   *)
(***************************************************************************)
StartOf(k) == IF k = "function" THEN FUNCTION_START ELSE PROCEDURE_START

DefaultReturnsOf(k) == IF k = "function" THEN <<"DECIMAL">> ELSE <<"VOID">>

\* the text holds the start marker and, somewhere after it, the end marker
HasMarkers(s, start) ==
  \E i \in 1..Len(s) :
    /\ MatchAt(s, i, start)
    /\ \E j \in (i + Len(start))..Len(s) : MatchAt(s, j, END_MARKER)

\* the text holds pat
OccursIn(s, pat) == \E i \in 1..Len(s) : MatchAt(s, i, pat)

\* the text holds the field keyword of a `<field>:` line
HasField(s, field) == OccursIn(s, <<field, ":">>)

\* C1: a text with no metadata block (no start marker followed later by the
\* end marker) parses to None, in both parsers.
C1_AbsentWithoutBlock ==
  (pc = "parsed" /\ ~HasMarkers(sql_content, StartOf(kind)))
    => metadata = None

\* C1 witness: a parsed function file that holds both markers, the end
\* marker only before the start marker, and whose parse is None.
C1_Witness ==
  /\ pc = "parsed" /\ kind = "function"
  /\ OccursIn(sql_content, FUNCTION_START)
  /\ OccursIn(sql_content, END_MARKER)
  /\ ~HasMarkers(sql_content, FUNCTION_START)
  /\ metadata = None

\* C2 (as claimed): every parse result is None or a descriptor whose name is
\* present and non-empty.
C2_NameAlwaysPresent ==
  (pc = "parsed" /\ metadata # None)
    => (metadata.name # None /\ metadata.name.s # <<>>)

\* C2 (amended): every parse result is None or a descriptor whose name is
\* either None or a non-empty trimmed string, never the empty string; a text
\* with both delimiters and no `name:` gives a descriptor whose name is None.
C2_NameNoneOrNonEmpty ==
  /\ (pc = "parsed" /\ metadata # None /\ metadata.name # None)
       => /\ metadata.name.s # <<>>
          /\ metadata.name.s = Strip(metadata.name.s)
  /\ (pc = "parsed" /\ HasMarkers(sql_content, StartOf(kind))
        /\ ~HasField(sql_content, "name"))
       => (metadata # None /\ metadata.name = None)

\* C2 witness: a block with both delimiters, a `name:` line without a value
\* as its last line, and a descriptor whose name is None.
C2_Witness ==
  /\ pc = "parsed"
  /\ metadata # None /\ metadata.name = None
  /\ HasMarkers(sql_content, StartOf(kind))
  /\ OccursIn(sql_content, FieldLine("name", <<>>) \o <<"\n">> \o END_MARKER)

ParseOf(k, text) ==
  IF k = "function" THEN parse_function_metadata(text)
  ELSE parse_procedure_metadata(text)

\* the lines of the block of a file given by its lines: those between the
\* first start marker line that has an end marker line after it, and that
\* end marker line
BlockLines(ls, k) ==
  LET starts == {i \in 1..Len(ls) :
                   /\ ls[i] = StartOf(k)
                   /\ \E j \in (i + 1)..Len(ls) : ls[j] = END_MARKER}
  IN IF starts = {} THEN {}
     ELSE LET first == Min(starts)
              last  == Min({j \in (first + 1)..Len(ls) : ls[j] = END_MARKER})
          IN (first + 1)..(last - 1)

IsFieldLine(l, field) == MatchAt(l, 1, <<"--", " ", field, ":">>)

\* the value of a field line, trimmed
FieldValue(l) == Strip(SubSeq(l, 5, Len(l)))

RemoveAt(ls, k) == SubSeq(ls, 1, k - 1) \o SubSeq(ls, k + 1, Len(ls))

\* the first `<field>:` line of the block, 0 when there is none
FirstFieldLine(ls, k, field) ==
  LET at == {i \in BlockLines(ls, k) : IsFieldLine(ls[i], field)}
  IN IF at = {} THEN 0 ELSE Min(at)

\* C4 (as claimed): when the block's params: line has the value `none` (any
\* case) or no value, the parameter list is empty whatever line follows, and
\* name, description and returns are those of the file without that line.
C4_NoneOrEmptyParams ==
  LET k == FirstFieldLine(lines, kind, "params")
  IN (pc = "parsed" /\ k # 0
        /\ Lower(FieldValue(lines[k])) \in {<<>>, <<"none">>})
       => /\ metadata # None
          /\ metadata.params = <<>>
          /\ LET without == ParseOf(kind, Join(RemoveAt(lines, k), <<"\n">>))
             IN /\ metadata.name = without.name
                /\ metadata.description = without.description
                /\ metadata.returns = without.returns

\* an item of a params: value has a colon
HasColon(item) == \E i \in 1..Len(item) : item[i] = ":"

\* the entry the claim gives for an item with a colon
EntryOf(item) ==
  LET c == Min({i \in 1..Len(item) : item[i] = ":"})
  IN [name |-> Strip(SubSeq(item, 1, c - 1)),
      type |-> Upper(Strip(SubSeq(item, c + 1, Len(item))))]

\* C5: a params: value that is a comma-separated list gives one entry per
\* item that has a colon, in declaration order, the name trimmed, the type
\* (the text after the first colon) trimmed and upper-cased; items without a
\* colon are skipped.
C5_ParamsInOrder ==
  (pc = "parsed" /\ metadata # None /\ Strip(Join(items, <<",">>)) # <<>>)
    => LET kept == SelectSeq(items, HasColon)
       IN metadata.params = [i \in 1..Len(kept) |-> EntryOf(kept[i])]

\* C5 witness: a:INT,d, b : text  gives a/INT and b/TEXT, the item without a
\* colon skipped, with a returns: line after the params: line.
C5_Witness ==
  /\ pc = "parsed" /\ metadata # None
  /\ items = << <<"a", ":", "INT">>, <<"d">>,
                <<" ", "b", " ", ":", " ", "text", " ">> >>
  /\ metadata.params = << [name |-> <<"a">>, type |-> <<"INT">>],
                          [name |-> <<"b">>, type |-> <<"TEXT">>] >>
  /\ Len(lines) = 4

\* C6 (as claimed): every descriptor has a non-empty return kind: the trimmed
\* upper-cased value of the block's returns: line when it has a value, and
\* the parser's default when there is no returns: line or it has no value.
C6_ReturnsValueOrDefault ==
  (pc = "parsed" /\ metadata # None)
    => /\ metadata.returns # <<>>
       /\ LET at == {i \in BlockLines(lines, kind) :
                       IsFieldLine(lines[i], "returns")}
          IN IF at # {} /\ FieldValue(lines[Min(at)]) # <<>>
             THEN metadata.returns = Upper(FieldValue(lines[Min(at)]))
             ELSE (\A i \in at : FieldValue(lines[i]) = <<>>)
                    => metadata.returns = DefaultReturnsOf(kind)

(***************************************************************************)
(* What the claims say about a built call                                  *)
(***************************************************************************)
\* the SQL literal the value-formatting rule of the specification gives for
\* each value of ParamValues, spelled out
LiteralOf(v) ==
  CASE v = None -> "NULL"
    [] v = Str(<<>>) -> "NULL"
    [] v = Str(<<"x">>) -> "'x'"
    [] v = Str(<<"O", "'", "Brien">>) -> "'O''Brien'"
    [] v = Str(<<"'">>) -> "''''"
    [] v = PyBool(TRUE) -> "TRUE"
    [] v = PyBool(FALSE) -> "FALSE"
    [] v = PyInt(42) -> "42"
    [] v = PyInt(7) -> "7"
    [] v = PyInt(0) -> "0"
    [] v = PyInt(-3) -> "-3"
    [] v = PyFloat(350) -> "3.5"
    [] v = PyDate(2024, 1, 15) -> "'2024-01-15'"
    [] v = PyOther(<<"09", ":", "30", ":", "00">>) -> "'09:30:00'"

\* strings joined by a comma and one space
RECURSIVE JoinArgs(_)
JoinArgs(strs) ==
  IF strs = <<>> THEN ""
  ELSE IF Len(strs) = 1 THEN Head(strs)
  ELSE Head(strs) \o ", " \o JoinArgs(Tail(strs))

\* C7: both builders format each value by the first matching rule of the
\* chain absent/empty, text, boolean, numeric, date, other: None and "" give
\* NULL, a boolean gives TRUE or FALSE, an integer or float its decimal text.
C7_ValueFormatting ==
  pc = "built"
    => /\ Len(formatted_params) = Len(call_args.params_dict)
       /\ \A i \in 1..Len(formatted_params) :
            Cat(formatted_params[i]) = LiteralOf(call_args.params_dict[i].v)

\* C7 witness: a built call whose values include a boolean and a float,
\* formatted TRUE and 3.5.
C7_Witness ==
  /\ pc = "built"
  /\ \E i, j \in 1..Len(formatted_params) :
       /\ call_args.params_dict[i].v = PyBool(TRUE)
       /\ formatted_params[i] = <<"T", "R", "U", "E">>
       /\ call_args.params_dict[j].v = PyFloat(350)
       /\ formatted_params[j] = <<"3", ".", "5">>

\* every single quote of s is one of a pair
RECURSIVE QuotesPaired(_)
QuotesPaired(s) ==
  IF s = <<>> THEN TRUE
  ELSE IF Head(s) # "'" THEN QuotesPaired(Tail(s))
  ELSE Len(s) >= 2 /\ s[2] = "'" /\ QuotesPaired(SubSeq(s, 3, Len(s)))

\* s with every pair of single quotes made one
RECURSIVE Unescape(_)
Unescape(s) ==
  IF s = <<>> THEN <<>>
  ELSE IF Len(s) >= 2 /\ s[1] = "'" /\ s[2] = "'"
    THEN <<"'">> \o Unescape(SubSeq(s, 3, Len(s)))
  ELSE <<Head(s)>> \o Unescape(Tail(s))

\* C8: for a non-empty text value both builders give a literal that starts
\* and ends with a single quote, holds the value with every single quote
\* doubled, and so has no unescaped single quote between its delimiters.
C8_TextQuoted ==
  pc = "built"
    => \A i \in 1..Len(formatted_params) :
         LET v   == call_args.params_dict[i].v
             lit == formatted_params[i]
         IN (v.t = "str" /\ v.s # <<>>)
              => /\ Len(lit) >= 2
                 /\ lit[1] = "'" /\ lit[Len(lit)] = "'"
                 /\ QuotesPaired(SubSeq(lit, 2, Len(lit) - 1))
                 /\ Unescape(SubSeq(lit, 2, Len(lit) - 1)) = v.s

\* C8 witness: O'Brien built into a call as 'O''Brien'.
C8_Witness ==
  /\ pc = "built"
  /\ \E i \in 1..Len(formatted_params) :
       /\ call_args.params_dict[i].v = Str(<<"O", "'", "Brien">>)
       /\ formatted_params[i] = <<"'", "O", "'", "'", "Brien", "'">>

\* C9: build_function_call gives SELECT * FROM name(args); exactly when the
\* return kind is TABLE and SELECT name(args) AS result; for every other
\* return kind; an empty mapping gives empty args.
C9_CallShape ==
  (pc = "built" /\ kind = "function")
    => LET name == Cat(call_args.func_name.s)
           args == IF call_args.params_dict = <<>> THEN ""
                   ELSE Cat(Join(formatted_params, <<", ">>))
       IN /\ call_args.return_type = <<"TABLE">>
               => sql_call = "SELECT * FROM " \o name \o "(" \o args \o ");"
          /\ call_args.return_type # <<"TABLE">>
               => sql_call = "SELECT " \o name \o "(" \o args \o ") AS result;"
          /\ (call_args.params_dict = <<>> /\ name = "f")
               => sql_call = IF call_args.return_type = <<"TABLE">>
                             THEN "SELECT * FROM f();"
                             ELSE "SELECT f() AS result;"

\* C9 witness: f with no parameters and return kind TABLE built as
\* SELECT * FROM f();
C9_Witness ==
  /\ pc = "built" /\ kind = "function"
  /\ call_args.func_name = Str(<<"f">>)
  /\ call_args.params_dict = <<>>
  /\ call_args.return_type = <<"TABLE">>
  /\ sql_call = "SELECT * FROM f();"

\* C10: the arguments of the call build_function_call gives are the
\* formatted values of the mapping in its iteration order, one per entry,
\* joined by a comma and one space.
C10_ArgumentOrder ==
  (pc = "built" /\ kind = "function")
    => LET d    == call_args.params_dict
           args == JoinArgs([i \in 1..Len(d) |-> LiteralOf(d[i].v)])
       IN sql_call =
            (IF call_args.return_type = <<"TABLE">> THEN "SELECT * FROM "
             ELSE "SELECT ")
            \o Cat(call_args.func_name.s) \o "(" \o args
            \o (IF call_args.return_type = <<"TABLE">> THEN ");"
                ELSE ") AS result;")

\* C10 witness: f with {id: 7, label: "x"} built as
\* SELECT f(7, 'x') AS result;
C10_Witness ==
  /\ pc = "built" /\ kind = "function"
  /\ call_args.func_name = Str(<<"f">>)
  /\ call_args.params_dict = << [k |-> <<"id">>, v |-> PyInt(7)],
                                [k |-> <<"label">>, v |-> Str(<<"x">>)] >>
  /\ call_args.return_type = <<"DECIMAL">>
  /\ sql_call = "SELECT f(7, 'x') AS result;"

(***************************************************************************)
(* What the claims say about the tabs of app.py                            *)
(***************************************************************************)
\* C3 (as claimed): the tabs build and execute a call only with a descriptor
\* whose name is present: never for an absent parse, never with a missing
\* name.
C3_CallsOnlyWithName ==
  /\ call_args # None
       => (metadata # None /\ metadata.name # None
             /\ call_args.func_name # None)
  /\ page # None
       => \A i \in 1..Len(page.executed) : page.executed[i].name # None

(***************************************************************************)
(* What the claims say about the procedure builder                         *)
(***************************************************************************)
\* C11: build_procedure_call gives CALL name(args); where args is the very
\* argument text build_function_call gives for the same mapping, under either
\* return kind (empty for an empty mapping), whatever return kind the caller
\* holds; p with {qty: None} gives CALL p(NULL);
C11_ProcedureCallRefinesFunctionArgs ==
  (pc = "built" /\ kind = "procedure")
    => LET name == Cat(PyStr(call_args.func_name))
           d    == call_args.params_dict
           args == Cat(Join(formatted_params, <<", ">>))
       IN /\ sql_call = "CALL " \o name \o "(" \o args \o ");"
          /\ Cat(build_function_call(call_args.func_name, d, <<"DECIMAL">>))
               = "SELECT " \o name \o "(" \o args \o ") AS result;"
          /\ Cat(build_function_call(call_args.func_name, d, <<"TABLE">>))
               = "SELECT * FROM " \o name \o "(" \o args \o ");"
          /\ d = <<>> => sql_call = "CALL " \o name \o "();"
          /\ (name = "p" /\ d = << [k |-> <<"qty">>, v |-> None] >>)
               => sql_call = "CALL p(NULL);"

\* C11 witness: p with {qty: None} built as CALL p(NULL); by a caller that
\* holds the return kind TABLE.
C11_Witness ==
  /\ pc = "built" /\ kind = "procedure"
  /\ call_args.func_name = Str(<<"p">>)
  /\ call_args.params_dict = << [k |-> <<"qty">>, v |-> None] >>
  /\ call_args.return_type = <<"TABLE">>
  /\ sql_call = "CALL p(NULL);"

(***************************************************************************)
(* What the claims say about the entry points of db/executor.py            *)
(***************************************************************************)
\* C12: when a call of run_query, run_function or run_procedure has handed
\* control back, by return or by raise, the connection it opened is closed,
\* and in run_procedure the cursor too; at no time is a connection of an
\* earlier call still open.
C12_ConnectionsClosed ==
  /\ pc = "done"
       => /\ db.open = {}
          /\ db.cur # None => db.cur.closed
  /\ pc = "idle" => db.open = {}
  /\ \A c \in db.open : c = db.conn

\* C12 witness: run_procedure that acquired a connection and a cursor,
\* failed in execute, raised, and has closed both.
C12_Witness ==
  /\ pc = "done"
  /\ db.entry = "run_procedure"
  /\ db.raised # None
  /\ db.trace = <<"acquire", "cursor", "execute", "close_cursor",
                  "close_connection", "raise">>
  /\ db.conn # None /\ db.conn \notin db.open
  /\ db.cur = CursorObject(TRUE)

\* the error conditions of the classification table and the kind it gives
TableKind ==
  [c \in {"UndefinedFunction", "UndefinedTable", "UndefinedColumn",
          "SyntaxError", "RaiseException", "ForeignKeyViolation",
          "CheckViolation", "NumericValueOutOfRange",
          "InvalidParameterValue"} |->
     CASE c \in {"UndefinedFunction", "UndefinedTable", "UndefinedColumn"}
            -> "NotFound"
       [] c = "SyntaxError" -> "SyntaxInvalid"
       [] OTHER -> "ValidationFailed"]

\* the kind of the taxonomy a raised exception stands for: its class and the
\* words its message begins with
KindOfRaised(raised) ==
  CASE raised.cls = "ValueError"
         /\ raised.msg[1] \in {"Database function not found: ",
                               "Function not found in database: ",
                               "Table not found: ", "Column not found: "}
         -> "NotFound"
    [] raised.cls = "ValueError" /\ raised.msg[1] = "SQL syntax error: "
         -> "SyntaxInvalid"
    [] raised.cls = "ValueError"
         /\ raised.msg[1] \in {"Procedure validation error: ",
                               "Function error: ",
                               "Invalid parameter value: ",
                               "Foreign key constraint error: ",
                               "Check constraint error: ",
                               "Numeric value out of range: "}
         -> "ValidationFailed"
    [] raised.cls = "Exception" /\ raised.msg[1] = "Database error: "
         -> "BackendError"
    [] OTHER -> "Unexpected"

\* the call is over and its statement failed on the server with condition c
StatementFailedWith(c) ==
  /\ pc = "done"
  /\ db.stmt.fails = c
  /\ db.executes = 1

\* C13 (as claimed): whichever entry point ran the statement, a failure with
\* a condition of the classification table is raised as ValueError of the
\* kind the table gives, never as BackendError.
C13_SameClassification ==
  \A c \in DOMAIN TableKind :
    StatementFailedWith(c)
      => /\ db.raised # None
         /\ db.raised.cls = "ValueError"
         /\ KindOfRaised(db.raised) = TableKind[c]

\* C14 (as claimed): run_query raises ValueError beginning "Database function
\* not found" for an undefined function and ValueError beginning "Table not
\* found" for an undefined table, neither BackendError nor Unexpected.
C14_RunQueryNotFound ==
  db.entry = "run_query"
    => /\ StatementFailedWith("UndefinedFunction")
            => /\ db.raised # None
               /\ db.raised.cls = "ValueError"
               /\ db.raised.msg[1] = "Database function not found: "
       /\ StatementFailedWith("UndefinedTable")
            => /\ db.raised # None
               /\ db.raised.cls = "ValueError"
               /\ db.raised.msg[1] = "Table not found: "

\* C15: when the statement of run_procedure fails with RAISE EXCEPTION, the
\* call raises ValueError of kind ValidationFailed whose message holds the
\* routine's message unchanged; the generic clauses do not reclassify it.
C15_RoutineMessageKept ==
  (db.entry = "run_procedure" /\ StatementFailedWith("RaiseException"))
    => /\ db.raised # None
       /\ db.raised.cls = "ValueError"
       /\ KindOfRaised(db.raised) = "ValidationFailed"
       /\ db.raised.msg[1] = "Procedure validation error: "
       /\ OccursIn(db.raised.msg, db.stmt.message)

\* C15 witness: run_procedure whose routine raised "Batch does not exist"
\* has raised ValueError with that message.
C15_Witness ==
  /\ db.entry = "run_procedure"
  /\ StatementFailedWith("RaiseException")
  /\ db.stmt.message = <<"Batch does not exist">>
  /\ db.raised # None
  /\ db.raised.cls = "ValueError"
  /\ db.raised.msg[2] = "Batch does not exist"

\* the order of the steps of a run_procedure that succeeds
ProcedureSteps ==
  <<"acquire", "cursor", "execute", "commit", "notices", "close_cursor",
    "close_connection", "return">>

\* C16: run_procedure executes the statement at most once and commits at
\* most once; the success envelope exists only after acquire, execute,
\* commit and notices in that order, with one execute and one commit, and
\* holds the notices; a call that raises has committed nothing and has no
\* envelope.
C16_ProcedureStepOrder ==
  db.entry = "run_procedure"
    => /\ db.executes <= 1 /\ db.commits <= 1
       /\ db.commits = 1 => db.executes = 1
       /\ db.result # None
            => /\ db.result = [success |-> TRUE, notices |-> db.stmt.notices]
               /\ db.executes = 1 /\ db.commits = 1
               /\ db.stmt.fails = "ok"
               /\ db.raised = None
               /\ \E n \in 5..Len(ProcedureSteps) :
                    db.trace = SubSeq(ProcedureSteps, 1, n)
       /\ (db.exc # None \/ db.raised # None)
            => db.commits = 0 /\ db.result = None
       /\ pc = "done"
            => \/ db.raised = None /\ db.trace = ProcedureSteps
               \/ /\ db.raised # None
                  /\ db.trace[Len(db.trace)] = "raise"
                  /\ \A i \in 1..Len(db.trace) :
                       db.trace[i] \notin {"commit", "notices", "return"}

\* C16 witness: run_procedure has returned the envelope with one notice
\* after one execute and one commit.
C16_Witness ==
  /\ pc = "done"
  /\ db.entry = "run_procedure"
  /\ db.result = [success |-> TRUE, notices |-> <<"NOTICE:  batch created\n">>]
  /\ db.executes = 1 /\ db.commits = 1
  /\ db.trace = ProcedureSteps

\* the tab of kind k has run, to its end or to an uncaught exception
TabOver(k) ==
  /\ kind = k
  /\ pc \in (IF k = "function" THEN {"tab3", "crashed"}
             ELSE {"done", "crashed"})

\* C17 (as claimed): for every descriptor a tab parses, the tab collects one
\* value per declared parameter, in declaration order, into the mapping, and
\* the call it builds on Execute has exactly as many arguments as the
\* descriptor declares parameters, two parameters of one name included.
C17_OneArgumentPerParameter ==
  \A k \in {"function", "procedure"} :
    (TabOver(k) /\ metadata # None)
      => LET collected == IF k = "function" THEN page.func_params
                          ELSE page.proc_params
         IN /\ collected # None
            /\ Len(collected) = Len(metadata.params)
            /\ \A i \in 1..Len(collected) :
                 collected[i].k = metadata.params[i].name
            /\ page.inputs.button = "execute_" \o k
                 => /\ call_args # None
                    /\ call_args.params_dict = collected
                    /\ Len(formatted_params) = Len(metadata.params)

====
